---- MODULE Spec2Model ----
(***************************************************************************)
(* rebuilder (src/main.rs): reverse-dependency index, worklist expansion   *)
(* into a petgraph DiGraph, per-seed Bfs report and optional dot export.   *)
(***************************************************************************)
EXTENDS Integers, Sequences, FiniteSets, TLC

VARIABLES
    syncdbs,            \* the sync databases of the alpm handle `pacman`
    pkgnames,           \* args.pkgnames
    reverse_deps_map,   \* HashMap<String, Vec<String>>
    graph,              \* DiGraph<&str, u16>: [nodes, edges]
    to_visit,           \* VecDeque<&str>
    to_build,           \* HashSet<&String>
    cache_node,         \* HashMap<&str, NodeIndex>
    popped,             \* history: the names returned by pop_front, in order
    expanded,           \* history: the names whose dependents were enqueued
    report_i,           \* position of the report loop in pkgnames
    stdout,             \* the printed lines, one sequence of names per line
    file,               \* the dot file: no text, or the one exported text
    looked_up,          \* history: the names given to find_package_anywhere
    error,              \* the Err main returned: <<>> while running, else its parts
    pc                  \* position of main

vars == <<syncdbs, pkgnames, reverse_deps_map, graph, to_visit, to_build,
          cache_node, popped, expanded, report_i, stdout, file, looked_up,
          error, pc>>

-----------------------------------------------------------------------------
(* Bounds of the inputs *)

\* most dependency declarations in the corpus
MaxEntries == 3
\* most seed names on the command line
MaxSeeds == 2

\* most runtime dependencies, and most build-time dependencies, of a package
MaxDepends == 2
MaxMakeDepends == 1

\* package names of the small corpus, in scan order
SmallNames == <<"a", "b", "c">>
\* package names of the corpus with one more package
AllNames == <<"a", "b", "c", "d">>
\* a name that no repository holds
Unknown == "x"

Range(s) == {s[i] : i \in DOMAIN s}

EmptyMap == [k \in {} |-> 0]

SeqsUpTo(S, n) == UNION {[1..m -> S] : m \in 0..n}

-----------------------------------------------------------------------------
(* The package corpus (alpm) *)

\* no base name: pkg.base() is None
NoBase == ""

\* The dependencies a package declares, of a list of declarations <<pkg, dep>>
RECURSIVE DeclsOf(_, _)
DeclsOf(decls, name) ==
    IF decls = <<>> THEN <<>>
    ELSE IF Head(decls)[1] = name
         THEN <<Head(decls)[2]>> \o DeclsOf(Tail(decls), name)
         ELSE DeclsOf(Tail(decls), name)

\* A package: its first declaration is a runtime dependency, the others are
\* build-time dependencies; the packages of "extra" carry a base name
MkPkg(decls, name, withBase) ==
    LET ds == DeclsOf(decls, name) IN
    [name        |-> name,
     base        |-> IF withBase THEN name ELSE NoBase,
     depends     |-> IF ds = <<>> THEN <<>> ELSE <<Head(ds)>>,
     makedepends |-> IF ds = <<>> THEN <<>> ELSE Tail(ds)]

\* The four registered sync databases (main.rs:78-81)
Corpus(names, decls) ==
    <<[name |-> "core",
       pkgs |-> [i \in 1..2 |-> MkPkg(decls, names[i], FALSE)]],
      [name |-> "extra",
       pkgs |-> [i \in 1..(Len(names) - 2) |-> MkPkg(decls, names[i + 2], TRUE)]],
      [name |-> "community", pkgs |-> <<>>],
      [name |-> "multilib", pkgs |-> <<>>]>>

Corpora(names) ==
    {Corpus(names, decls) :
        decls \in SeqsUpTo(Range(names) \X Range(names), MaxEntries)}

\* db.pkg(pkgname)
db_pkg(db, pkgname) ==
    IF \E i \in DOMAIN db.pkgs : db.pkgs[i].name = pkgname
    THEN [ok |-> TRUE,
          pkg |-> db.pkgs[CHOOSE i \in DOMAIN db.pkgs : db.pkgs[i].name = pkgname]]
    ELSE [ok |-> FALSE, pkg |-> "PkgNotFound"]

RECURSIVE find_in(_, _)
find_in(dbs, pkgname) ==
    IF dbs = <<>> THEN [ok |-> FALSE, pkg |-> "PkgNotFound"]
    ELSE LET maybe_pkg == db_pkg(Head(dbs), pkgname) IN
         IF maybe_pkg.ok THEN maybe_pkg ELSE find_in(Tail(dbs), pkgname)

find_package_anywhere(pkgname, pacman) == find_in(pacman, pkgname)

-----------------------------------------------------------------------------
(* get_reverse_deps_map *)

\* pkg.base().unwrap_or_else(|| pkg.name())
base_or_name(pkg) == IF pkg.base # NoBase THEN pkg.base ELSE pkg.name

\* a push that skips a dependent the entry already names
entry_push_once(reverse_deps, dep, v) ==
    IF dep \in DOMAIN reverse_deps
    THEN IF v \in Range(reverse_deps[dep]) THEN reverse_deps
         ELSE [reverse_deps EXCEPT ![dep] = Append(@, v)]
    ELSE (dep :> <<v>>) @@ reverse_deps

\* reverse_deps.entry(dep).and_modify(|e| e.push(v)).or_insert_with(|| vec![v])
entry_push(reverse_deps, dep, v) ==
    IF dep \in DOMAIN reverse_deps
    THEN [reverse_deps EXCEPT ![dep] = Append(@, v)]
    ELSE (dep :> <<v>>) @@ reverse_deps

RECURSIVE scan_deps(_, _, _)
scan_deps(reverse_deps, deps, v) ==
    IF deps = <<>> THEN reverse_deps
    ELSE scan_deps(entry_push(reverse_deps, Head(deps), v), Tail(deps), v)

\* one package: its depends, then its makedepends
scan_pkg(reverse_deps, pkg) ==
    scan_deps(scan_deps(reverse_deps, pkg.depends, base_or_name(pkg)),
              pkg.makedepends, base_or_name(pkg))

RECURSIVE scan_pkgs(_, _)
scan_pkgs(reverse_deps, pkgs) ==
    IF pkgs = <<>> THEN reverse_deps
    ELSE scan_pkgs(scan_pkg(reverse_deps, Head(pkgs)), Tail(pkgs))

RECURSIVE scan_dbs(_, _)
scan_dbs(reverse_deps, dbs) ==
    IF dbs = <<>> THEN reverse_deps
    ELSE scan_dbs(scan_pkgs(reverse_deps, Head(dbs).pkgs), Tail(dbs))

get_reverse_deps_map(pacman) == scan_dbs(EmptyMap, pacman)

-----------------------------------------------------------------------------
(* petgraph: DiGraph and Bfs *)

\* edge weight given to add_edge (main.rs:113)
EdgeWeight == 1

EmptyGraph == [nodes |-> <<>>, edges |-> <<>>]

\* graph.add_node(weight); the new node's index is Len(nodes)
add_node(g, weight) == [g EXCEPT !.nodes = Append(@, weight)]

\* a lookup with the end points swapped
contains_edge_swapped(g, a, b) ==
    \E i \in DOMAIN g.edges : g.edges[i][1] = b /\ g.edges[i][2] = a

contains_edge(g, a, b) ==
    \E i \in DOMAIN g.edges : g.edges[i][1] = a /\ g.edges[i][2] = b

add_edge(g, a, b, weight) == [g EXCEPT !.edges = Append(@, <<a, b, weight>>)]

\* graph.neighbors(a): the targets of a's outgoing edges, newest edge first
RECURSIVE neighbors_from(_, _, _)
neighbors_from(g, a, i) ==
    IF i = 0 THEN <<>>
    ELSE IF g.edges[i][1] = a
         THEN <<g.edges[i][2]>> \o neighbors_from(g, a, i - 1)
         ELSE neighbors_from(g, a, i - 1)

\* the neighbours in both directions, as of an undirected graph
RECURSIVE neighbors_both(_, _, _)
neighbors_both(g, a, i) ==
    IF i = 0 THEN <<>>
    ELSE IF g.edges[i][1] = a
         THEN <<g.edges[i][2]>> \o neighbors_both(g, a, i - 1)
         ELSE IF g.edges[i][2] = a
              THEN <<g.edges[i][1]>> \o neighbors_both(g, a, i - 1)
              ELSE neighbors_both(g, a, i - 1)

neighbors_undirected(g, a) == neighbors_both(g, a, Len(g.edges))

\* the neighbours in the order the edges were added
neighbors_oldest_first(g, a) ==
    LET n == neighbors_from(g, a, Len(g.edges))
    IN  [i \in 1..Len(n) |-> n[Len(n) + 1 - i]]

neighbors(g, a) == neighbors_from(g, a, Len(g.edges))

\* a push that stops after the first successor
bfs_push_first(succs, stack, discovered) ==
    IF succs = <<>> \/ Head(succs) \in discovered
    THEN [stack |-> stack, discovered |-> discovered]
    ELSE [stack |-> Append(stack, Head(succs)),
          discovered |-> discovered \cup {Head(succs)}]

\* the inner loop of Bfs::next: push the undiscovered successors
RECURSIVE bfs_push(_, _, _)
bfs_push(succs, stack, discovered) ==
    IF succs = <<>> THEN [stack |-> stack, discovered |-> discovered]
    ELSE IF Head(succs) \in discovered
         THEN bfs_push(Tail(succs), stack, discovered)
         ELSE bfs_push(Tail(succs), Append(stack, Head(succs)),
                       discovered \cup {Head(succs)})

\* while let Some(nx) = bfs.next(&graph): the nodes in visiting order
RECURSIVE bfs_run(_, _, _)
bfs_run(g, stack, discovered) ==
    IF stack = <<>> THEN <<>>
    ELSE LET nx == Head(stack)
             st == bfs_push(neighbors(g, nx), Tail(stack), discovered)
         IN  <<nx>> \o bfs_run(g, st.stack, st.discovered)

\* the traversal emitted last node first
bfs_order_reversed(g, start) ==
    LET order == bfs_run(g, <<start>>, {start}) IN
    [i \in DOMAIN order |-> order[Len(order) + 1 - i]]

\* Bfs::new(&graph, start) and the traversal to its end
bfs_order(g, start) == bfs_run(g, <<start>>, {start})

\* the line printed for a start node: graph[nx] for each visited node
bfs_line(g, start) ==
    LET order == bfs_order(g, start) IN
    [i \in DOMAIN order |-> g.nodes[order[i]]]

-----------------------------------------------------------------------------
(* main: the expansion loop *)

\* an entry that adds a node on every reference
cache_entry_fresh(st, name) ==
    [graph      |-> add_node(st.graph, name),
     cache_node |-> (name :> (Len(st.graph.nodes) + 1)) @@ st.cache_node]

\* cache_node.entry(name).or_insert_with(|| graph.add_node(name)), on the
\* pair st = [graph, cache_node]; the node is st'.cache_node[name]
cache_entry(st, name) ==
    IF name \in DOMAIN st.cache_node THEN st
    ELSE [graph      |-> add_node(st.graph, name),
          cache_node |-> (name :> (Len(st.graph.nodes) + 1)) @@ st.cache_node]

\* an insertion without the contains_edge test
insert_edge_always(g, root, depnode) == add_edge(g, root, depnode, EdgeWeight)

\* if !graph.contains_edge(root, depnode) { graph.add_edge(root, depnode, 1) }
insert_edge(g, root, depnode) ==
    IF ~contains_edge(g, root, depnode)
    THEN add_edge(g, root, depnode, EdgeWeight)
    ELSE g

\* a loop body that adds the edge only while the guard is open for root
link_rev_dep_guarded(st, root, rev_dep) ==
    LET st1 == cache_entry(st, rev_dep) IN
    IF st.graph.nodes[root] \in to_build THEN st1
    ELSE [st1 EXCEPT !.graph = insert_edge(@, root, st1.cache_node[rev_dep])]

\* a loop body that adds the edge from the dependent to root
link_rev_dep_reversed(st, root, rev_dep) ==
    LET st1 == cache_entry(st, rev_dep) IN
    [st1 EXCEPT !.graph = insert_edge(@, st1.cache_node[rev_dep], root)]

\* the body of `for rev_dep in rev_deps_for_pkg`
link_rev_dep(st, root, rev_dep) ==
    LET st1 == cache_entry(st, rev_dep) IN
    [st1 EXCEPT !.graph = insert_edge(@, root, st1.cache_node[rev_dep])]

RECURSIVE link_rev_deps(_, _, _)
link_rev_deps(st, root, rev_deps) ==
    IF rev_deps = <<>> THEN st
    ELSE link_rev_deps(link_rev_dep(st, root, Head(rev_deps)), root, Tail(rev_deps))

\* a guard that closes once the name's own dependents were enqueued
guard_per_node(built, pkg) == pkg \notin expanded

\* to_build.get(&pkg.to_string()).is_none()
guard_open(built, pkg) == pkg \notin built

\* an extend for every name that was not popped before
enqueue_unpopped(queue, built, pkg, rev_deps) ==
    IF pkg \notin Range(popped) THEN queue \o rev_deps ELSE queue

\* to_visit.extend(rev_deps_for_pkg) under the guard
enqueue(queue, built, pkg, rev_deps) ==
    IF guard_open(built, pkg) THEN queue \o rev_deps ELSE queue

\* a set that records the popped name instead of its dependents
mark_popped(built, pkg, rev_deps) == built \cup {pkg}

\* to_build.extend(rev_deps_for_pkg)
mark_built(built, pkg, rev_deps) == built \cup Range(rev_deps)

-----------------------------------------------------------------------------
(* The state machine of main *)

SeedLists(names) == SeqsUpTo(Range(names) \cup {Unknown}, MaxSeeds) \ {<<>>}

InitRest ==
    /\ reverse_deps_map = EmptyMap
    /\ graph = EmptyGraph
    /\ to_visit = <<>>
    /\ to_build = {}
    /\ cache_node = EmptyMap
    /\ popped = <<>>
    /\ expanded = {}
    /\ report_i = 1
    /\ stdout = <<>>
    /\ file = <<>>
    /\ looked_up = <<>>
    /\ error = <<>>
    /\ pc = "build_index"

\* one seed, or two seeds
OneOrTwo(names) ==
    {<<n>> : n \in Range(names)} \cup {<<n, m>> : n \in Range(names), m \in Range(names)}

\* a corpus of three packages and one or two seeds
InitSmall ==
    /\ syncdbs \in Corpora(SmallNames)
    /\ pkgnames \in OneOrTwo(SmallNames)
    /\ InitRest

\* a corpus of three packages and up to MaxSeeds seeds, some of them unknown,
\* or a corpus of four packages and one or two seeds
Init ==
    /\ \/ /\ syncdbs \in Corpora(SmallNames)
          /\ pkgnames \in SeedLists(SmallNames)
       \/ /\ syncdbs \in Corpora(AllNames)
          /\ pkgnames \in OneOrTwo(AllNames)
    /\ InitRest

\* main.rs:82: get_reverse_deps_map(&pacman)?
BuildIndex ==
    /\ pc = "build_index"
    /\ \E readable \in BOOLEAN :
          IF readable
          THEN /\ reverse_deps_map' = get_reverse_deps_map(syncdbs)
               /\ pc' = "validate"
               /\ error' = error
          ELSE /\ reverse_deps_map' = reverse_deps_map
               /\ pc' = "failed"
               /\ error' = <<"Unable to get packages from sync db">>
    /\ UNCHANGED <<syncdbs, pkgnames, graph, to_visit, to_build, cache_node,
                   popped, expanded, report_i, stdout, file, looked_up>>

\* a validation that is content with one resolvable seed
some_found(names, pacman) ==
    \E i \in DOMAIN names : find_package_anywhere(names[i], pacman).ok

\* main.rs:84-92: the seed validation loop, then the queue and the sets
all_found(names, pacman) ==
    \A i \in DOMAIN names : find_package_anywhere(names[i], pacman).ok

\* the lookups of the loop: it returns at the first Err (the ? of main.rs:85)
RECURSIVE lookups(_, _)
lookups(names, pacman) ==
    IF names = <<>> THEN <<>>
    ELSE IF find_package_anywhere(Head(names), pacman).ok
         THEN <<Head(names)>> \o lookups(Tail(names), pacman)
         ELSE <<Head(names)>>

\* the Err of find_package_anywhere: alpm::Error::PkgNotFound (main.rs:25)
not_found(pkgname) == <<"PkgNotFound">>

Validate ==
    /\ pc = "validate"
    /\ LET looked == lookups(pkgnames, syncdbs) IN
       /\ looked_up' = looked
       /\ IF all_found(pkgnames, syncdbs)
          THEN /\ to_visit' = pkgnames
               /\ pc' = "expand"
               /\ error' = error
          ELSE /\ to_visit' = to_visit
               /\ pc' = "failed"
               /\ error' = not_found(looked[Len(looked)])
    /\ UNCHANGED <<syncdbs, pkgnames, reverse_deps_map, graph, to_build,
                   cache_node, popped, expanded, report_i, stdout, file>>

\* main.rs:96-118: one iteration of the while loop
Expand ==
    /\ pc = "expand"
    /\ to_visit # <<>>
    /\ LET pkg  == Head(to_visit)
           st0  == cache_entry([graph |-> graph, cache_node |-> cache_node], pkg)
           root == st0.cache_node[pkg]
       IN  IF pkg \in DOMAIN reverse_deps_map
           THEN LET rev_deps_for_pkg == reverse_deps_map[pkg]
                    st1 == link_rev_deps(st0, root, rev_deps_for_pkg)
                IN  /\ to_visit' = enqueue(Tail(to_visit), to_build, pkg, rev_deps_for_pkg)
                    /\ expanded' = IF guard_open(to_build, pkg)
                                   THEN expanded \cup {pkg} ELSE expanded
                    /\ graph' = st1.graph
                    /\ cache_node' = st1.cache_node
                    /\ to_build' = mark_built(to_build, pkg, rev_deps_for_pkg)
           ELSE /\ to_visit' = Tail(to_visit)
                /\ expanded' = expanded
                /\ graph' = st0.graph
                /\ cache_node' = st0.cache_node
                /\ to_build' = to_build
    /\ popped' = Append(popped, Head(to_visit))
    /\ UNCHANGED <<syncdbs, pkgnames, reverse_deps_map, report_i, stdout, file,
                   looked_up, error, pc>>

\* main.rs:96: the queue is empty, the loop ends
ExpandDone ==
    /\ pc = "expand"
    /\ to_visit = <<>>
    /\ pc' = "report"
    /\ UNCHANGED <<syncdbs, pkgnames, reverse_deps_map, graph, to_visit, to_build,
                   cache_node, popped, expanded, report_i, stdout, file, looked_up,
                   error>>

\* a loop that is left after its first iteration
first_seed(i, names) == i = 1

\* for pkg in &pkgnames: the iteration at position i is the last one
last_seed(i, names) == i = Len(names)

\* main.rs:120-130: one iteration of the report loop
Report ==
    /\ pc = "report"
    /\ report_i <= Len(pkgnames)
    /\ LET pkg == pkgnames[report_i] IN
       stdout' = IF pkg \in DOMAIN cache_node
                 THEN Append(stdout, bfs_line(graph, cache_node[pkg]))
                 ELSE stdout
    /\ report_i' = report_i + 1
    /\ pc' = IF last_seed(report_i, pkgnames) THEN "export" ELSE pc
    /\ UNCHANGED <<syncdbs, pkgnames, reverse_deps_map, graph, to_visit, to_build,
                   cache_node, popped, expanded, file, looked_up, error>>

\* Dot::with_config(&graph, &[Config::EdgeNoLabel]): labelled nodes and
\* unlabelled arcs
dot(g) == [nodes |-> g.nodes,
           edges |-> [i \in DOMAIN g.edges |-> <<g.edges[i][1], g.edges[i][2]>>]]

\* main.rs:132-138: args.dotfile is None, or the file is written, or
\* File::create / write_all fails
Export ==
    /\ pc = "export"
    /\ \/ /\ pc' = "done"
          /\ UNCHANGED <<file, error>>
       \/ /\ file' = <<dot(graph)>>
          /\ pc' = "done"
          /\ error' = error
       \/ /\ pc' = "failed"
          /\ error' = <<"io">>
          /\ file' = file
    /\ UNCHANGED <<syncdbs, pkgnames, reverse_deps_map, graph, to_visit, to_build,
                   cache_node, popped, expanded, report_i, stdout, looked_up>>

Next == BuildIndex \/ Validate \/ Expand \/ ExpandDone \/ Report \/ Export

Spec == Init /\ [][Next]_vars

\* the while loop runs on: an iteration waits for nothing, and neither does
\* the test that ends the loop
FairSpec == InitSmall /\ [][Next]_vars /\ WF_vars(Expand \/ ExpandDone)

\* a package of a split build and the lists it may declare
SplitBase == "g"
DepNames == {"a", "b"}

PkgsNamed(name, deps, makedeps) ==
    {[name |-> name, base |-> b, depends |-> d, makedepends |-> m] :
        b \in {NoBase, SplitBase}, d \in deps, m \in makedeps}

\* packages a and b in "core" and c in "extra", each with or without a base
\* name, with runtime and build-time dependencies named more than once
IndexCorpora(deps) ==
    {<<[name |-> "core", pkgs |-> <<pa, pb>>],
       [name |-> "extra", pkgs |-> <<pc3>>],
       [name |-> "community", pkgs |-> <<>>],
       [name |-> "multilib", pkgs |-> <<>>]>> :
        pa \in PkgsNamed("a", SeqsUpTo(deps, MaxDepends), SeqsUpTo(deps, MaxMakeDepends)),
        pb \in PkgsNamed("b", SeqsUpTo(deps, MaxDepends), SeqsUpTo(deps, MaxMakeDepends)),
        pc3 \in PkgsNamed("c", {<<"a">>}, SeqsUpTo({"c"}, MaxMakeDepends))}

InitIndex ==
    /\ syncdbs \in IndexCorpora(DepNames)
    /\ pkgnames = <<"a">>
    /\ InitRest

\* get_reverse_deps_map alone, on the corpora of InitIndex
SpecIndex == InitIndex /\ [][BuildIndex]_vars

-----------------------------------------------------------------------------
(* Vocabulary of the properties *)

Seeds == Range(pkgnames)

\* the names the index lists as dependents of n
Deps(n) == IF n \in DOMAIN reverse_deps_map THEN Range(reverse_deps_map[n]) ELSE {}

DepsOf(S) == UNION {Deps(n) : n \in S}

\* the direct reverse-dependents of the seeds
Direct == DepsOf(Seeds)

\* the names at most two index steps away from a seed
Within2 == Seeds \cup Direct \cup DepsOf(Direct)

NodeLabels == Range(graph.nodes)

Printed == UNION {Range(stdout[i]) : i \in DOMAIN stdout}

\* the labels of the edges' end points
EdgeLabels == {<<graph.nodes[graph.edges[i][1]], graph.nodes[graph.edges[i][2]]>> :
                  i \in DOMAIN graph.edges}

IoFailed == pc = "failed" /\ error = <<"io">>

\* the expansion loop has ended
AfterExpansion == pc \in {"report", "export", "done"} \/ IoFailed

\* the name is a package of some sync database
InRepo(name) ==
    \E d \in DOMAIN syncdbs : \E i \in DOMAIN syncdbs[d].pkgs :
        syncdbs[d].pkgs[i].name = name

Chain2 == ("a" :> <<"b">>) @@ ("b" :> <<"c">>)
Chain3 == ("a" :> <<"b">>) @@ ("b" :> <<"c">>) @@ ("c" :> <<"d">>)

-----------------------------------------------------------------------------
(* C1 *)

\* C1 as stated: after expansion the graph and the report hold only the seeds
\* and the direct reverse-dependents of the seeds; with a->[b], b->[c] and
\* seeds [a] there is no node c, no edge b->c and no c on the line of a.
C1_DirectOnly ==
    AfterExpansion =>
        /\ NodeLabels \subseteq Seeds \cup Direct
        /\ Printed \subseteq Seeds \cup Direct
        /\ (reverse_deps_map = Chain2 /\ pkgnames = <<"a">>) =>
               /\ "c" \notin NodeLabels
               /\ <<"b", "c">> \notin EdgeLabels

\* C1 amended: after expansion the graph and the report hold only names at
\* most two index steps away from a seed (the seeds, their direct
\* reverse-dependents and the direct reverse-dependents of those), and every
\* edge starts at a seed or at a direct reverse-dependent of a seed; with
\* a->[b], b->[c], c->[d] and seeds [a] the line of a is a, b, c and the graph
\* has the edge b->c but no node d and no edge c->d.
C1_TwoSteps ==
    AfterExpansion =>
        /\ NodeLabels \subseteq Within2
        /\ Printed \subseteq Within2
        /\ \A e \in EdgeLabels : e[1] \in Seeds \cup Direct
        /\ (reverse_deps_map = Chain3 /\ pkgnames = <<"a">>) =>
               /\ EdgeLabels = {<<"a", "b">>, <<"b", "c">>}
               /\ "d" \notin NodeLabels
               /\ stdout # <<>> => stdout[1] = <<"a", "b", "c">>

C1_Witness ==
    /\ pc = "done"
    /\ reverse_deps_map = Chain3
    /\ pkgnames = <<"a">>
    /\ stdout = << <<"a", "b", "c">> >>
    /\ "d" \notin NodeLabels

-----------------------------------------------------------------------------
(* C2 *)

IndexFailed == pc = "failed" /\ error = <<"Unable to get packages from sync db">>

\* C2: when a seed is in no repository, or the index could not be built, the
\* run never enters expansion: nothing is printed, nothing is exported, the
\* graph stays empty; a run that ended has printed no line or one per seed,
\* and one per seed exactly when it got past validation.
C2_AllOrNothing ==
    /\ ((\E i \in DOMAIN pkgnames : ~InRepo(pkgnames[i])) \/ IndexFailed) =>
           /\ pc \in {"build_index", "validate", "failed"}
           /\ stdout = <<>>
           /\ file = <<>>
           /\ graph = EmptyGraph
           /\ popped = <<>>
    /\ (pc = "failed" /\ ~IoFailed) => (stdout = <<>> /\ file = <<>>)
    /\ (pc = "done" \/ IoFailed) => Len(stdout) = Len(pkgnames)

C2_Witness ==
    /\ pc = "failed"
    /\ error = <<"PkgNotFound">>
    /\ Len(pkgnames) = 2
    /\ InRepo(pkgnames[1])
    /\ ~InRepo(pkgnames[2])
    /\ pkgnames[1] \in DOMAIN reverse_deps_map
    /\ stdout = <<>>


-----------------------------------------------------------------------------
(* C3 *)

\* the lengths of the index lists of the first k entries of the seed list
RECURSIVE SumLens(_)
SumLens(k) ==
    IF k = 0 THEN 0
    ELSE (IF pkgnames[k] \in DOMAIN reverse_deps_map
          THEN Len(reverse_deps_map[pkgnames[k]]) ELSE 0) + SumLens(k - 1)

\* how many names are ever put on the queue, at most
QueueBudget == Len(pkgnames) + SumLens(Len(pkgnames))

\* two seeds, each listed in the index as a dependent of the other
MutualSeeds ==
    /\ Len(pkgnames) = 2
    /\ pkgnames[1] # pkgnames[2]
    /\ pkgnames[2] \in Deps(pkgnames[1])
    /\ pkgnames[1] \in Deps(pkgnames[2])

CountNodes(label) == Cardinality({i \in DOMAIN graph.nodes : graph.nodes[i] = label})

CountEdges(from, to) ==
    Cardinality({i \in DOMAIN graph.edges :
                    /\ graph.nodes[graph.edges[i][1]] = from
                    /\ graph.nodes[graph.edges[i][2]] = to})

\* C3: expansion ends, with an empty queue, after at most one pop per entry
\* of the seed list and per entry of the index lists of these, cycles and
\* self-dependencies included; when two seeds are dependents of each other the final graph has
\* one node per seed and at most one edge in each direction.
C3_Terminates ==
    /\ (pc = "expand") ~> (pc = "report" /\ to_visit = <<>>)
    /\ [](pc = "expand" => Len(popped) + Len(to_visit) <= QueueBudget)
    /\ []((AfterExpansion /\ MutualSeeds) =>
             /\ \A s \in Seeds : CountNodes(s) = 1
             /\ CountEdges(pkgnames[1], pkgnames[2]) <= 1
             /\ CountEdges(pkgnames[2], pkgnames[1]) <= 1)

C3_Witness ==
    /\ pc = "report"
    /\ to_visit = <<>>
    /\ MutualSeeds
    /\ Len(popped) = 4
    /\ \E n \in DOMAIN reverse_deps_map : n \in Deps(n)

-----------------------------------------------------------------------------
(* C4 *)

Occurrences(seq, x) == Cardinality({i \in DOMAIN seq : seq[i] = x})

\* C4: in every state the graph has at most one edge for an ordered pair of
\* nodes, and inserting an edge the graph already has leaves it as it is.
C4_NoDuplicateEdge ==
    /\ \A i, j \in DOMAIN graph.edges :
           (graph.edges[i][1] = graph.edges[j][1] /\ graph.edges[i][2] = graph.edges[j][2])
               => i = j
    /\ \A i \in DOMAIN graph.edges :
           insert_edge(graph, graph.edges[i][1], graph.edges[i][2]) = graph

\* a name popped twice whose index list names a dependent twice
C4_Witness ==
    /\ pc = "report"
    /\ \E n \in DOMAIN reverse_deps_map :
           /\ Occurrences(popped, n) >= 2
           /\ \E d \in Deps(n) : Occurrences(reverse_deps_map[n], d) >= 2
           /\ CountEdges(n, CHOOSE d \in Deps(n) : Occurrences(reverse_deps_map[n], d) >= 2) = 1

-----------------------------------------------------------------------------
(* C5 *)

\* the names popped so far and the names listed as their dependents
Encountered == Range(popped) \cup DepsOf(Range(popped))

\* C5: in every state the graph has exactly one node for each name
\* encountered so far and no other node, the cache maps each such name to its
\* node and is injective, and a second reference to a name adds nothing.
C5_OneNodePerName ==
    /\ DOMAIN cache_node = Encountered
    /\ NodeLabels = Encountered
    /\ \A n \in Encountered : CountNodes(n) = 1
    /\ \A n \in DOMAIN cache_node :
           /\ cache_node[n] \in DOMAIN graph.nodes
           /\ graph.nodes[cache_node[n]] = n
    /\ \A n, m \in DOMAIN cache_node : cache_node[n] = cache_node[m] => n = m
    /\ \A n \in DOMAIN cache_node :
           cache_entry([graph |-> graph, cache_node |-> cache_node], n)
               = [graph |-> graph, cache_node |-> cache_node]

\* a name referred to three times: popped twice and listed as a dependent
C5_Witness ==
    /\ pc = "report"
    /\ \E n \in Range(popped) :
           /\ Occurrences(popped, n) >= 2
           /\ n \in DepsOf(Range(popped))
           /\ CountNodes(n) = 1
    /\ Len(graph.nodes) >= 3

-----------------------------------------------------------------------------
(* C6 *)

\* C6: after expansion every seed has a node, and every popped name with an
\* index entry has an edge to the node of each name in that entry, also
\* when its dependents were not enqueued.
C6_EdgesForPopped ==
    AfterExpansion =>
        /\ Seeds \subseteq DOMAIN cache_node
        /\ \A cur \in Range(popped) : \A d \in Deps(cur) :
               /\ d \in DOMAIN cache_node
               /\ contains_edge(graph, cache_node[cur], cache_node[d])

\* a popped name whose guard never passed and that has edges all the same
C6_Witness ==
    /\ pc = "report"
    /\ \E cur \in Range(popped) \ expanded :
           /\ Deps(cur) # {}
           /\ \A d \in Deps(cur) : <<cur, d>> \in EdgeLabels

-----------------------------------------------------------------------------
(* C7 *)

\* C7: the report has one line per entry of the seed list handled so far,
\* in seed order, the i-th line begins with the i-th seed, and a run that
\* got through the report loop has a line for every entry.
C7_LinePerSeed ==
    /\ Len(stdout) = IF pc = "report" THEN report_i - 1
                     ELSE IF AfterExpansion THEN Len(pkgnames) ELSE 0
    /\ \A i \in DOMAIN stdout : stdout[i] # <<>> /\ stdout[i][1] = pkgnames[i]

\* two seeds that depend on each other, and a seed named twice
C7_Witness ==
    /\ pc = "done"
    /\ Len(stdout) = 2
    /\ \/ MutualSeeds /\ Len(stdout[2]) >= 2
       \/ pkgnames[1] = pkgnames[2] /\ Len(stdout[2]) >= 2

-----------------------------------------------------------------------------
(* C8 *)

IndexBuilt == pc \notin {"build_index", "failed"} \/ IoFailed

\* C8: a seed without an index entry never gets an outgoing edge, and its
\* report line is its own name alone.
C8_NoEntryOnlySelf ==
    IndexBuilt =>
        /\ \A s \in Seeds \ DOMAIN reverse_deps_map : \A e \in EdgeLabels : e[1] # s
        /\ \A i \in DOMAIN stdout :
               pkgnames[i] \notin DOMAIN reverse_deps_map => stdout[i] = <<pkgnames[i]>>

\* the seed without an entry is a dependent of the other seed
C8_Witness ==
    /\ pc = "done"
    /\ Len(pkgnames) = 2
    /\ pkgnames[2] \notin DOMAIN reverse_deps_map
    /\ pkgnames[2] \in Deps(pkgnames[1])
    /\ stdout[2] = <<pkgnames[2]>>
    /\ Len(stdout[1]) >= 2

-----------------------------------------------------------------------------
(* C10 *)

\* C10: a name waiting on the queue that is no seed is already in to_build,
\* so the guard is open (the dependents are enqueued) for seeds only.
C10_GuardOnlyForSeeds ==
    /\ \A i \in DOMAIN to_visit : to_visit[i] \notin Seeds => to_visit[i] \in to_build
    /\ (pc = "expand" /\ to_visit # <<>> /\ Head(to_visit) \notin Seeds) =>
           ~guard_open(to_build, Head(to_visit))
    /\ expanded \subseteq Seeds

\* a name that is no seed was popped, and it has an index entry
C10_Witness ==
    /\ pc = "report"
    /\ \E i \in DOMAIN popped :
           /\ popped[i] \notin Seeds
           /\ popped[i] \in DOMAIN reverse_deps_map
           /\ popped[i] \notin expanded

-----------------------------------------------------------------------------
(* C11 *)

\* the seeds the index lists as a dependent of another seed
ListedSeeds == {s \in Seeds : \E t \in Seeds \ {s} : s \in Deps(t)}

\* the next iteration pops a listed seed that was popped before
Reprocessing ==
    /\ pc = "expand"
    /\ to_visit # <<>>
    /\ Head(to_visit) \in ListedSeeds
    /\ Head(to_visit) \in Range(popped)

\* C11 as stated: a seed that the index lists as a dependent of another seed
\* is popped twice, and its second processing changes neither the graph,
\* the cache and the discovered-set nor the queue beyond the pop.
C11_PoppedTwice ==
    /\ [](AfterExpansion => \A s \in ListedSeeds : Occurrences(popped, s) = 2)
    /\ [][Reprocessing =>
             /\ graph' = graph
             /\ cache_node' = cache_node
             /\ to_build' = to_build
             /\ to_visit' = Tail(to_visit)]_vars

\* C11 amended: a seed that the index lists as a dependent of another seed
\* is popped at least once, and at least twice when that other seed had its
\* dependents enqueued; every processing of it after the first adds no node,
\* no edge and no discovered-set member, and no queue entry once the seed is
\* in the discovered-set.
C11_Reprocessing ==
    /\ [](AfterExpansion =>
             \A s \in ListedSeeds :
                 /\ Occurrences(popped, s) >= 1
                 /\ (\E t \in (Seeds \cap expanded) \ {s} : s \in Deps(t))
                        => Occurrences(popped, s) >= 2)
    /\ [][Reprocessing =>
             /\ graph' = graph
             /\ cache_node' = cache_node
             /\ to_build' = to_build
             /\ (Head(to_visit) \in to_build => to_visit' = Tail(to_visit))]_vars

\* a listed seed with dependents of its own was popped twice
C11_Witness ==
    /\ pc = "report"
    /\ \E s \in ListedSeeds :
           /\ Occurrences(popped, s) = 2
           /\ Deps(s) # {}
           /\ \A d \in Deps(s) : CountEdges(s, d) = 1

-----------------------------------------------------------------------------
(* C12 *)

\* the nodes that directed edges lead to from the nodes of S, S included
RECURSIVE ReachableFrom(_)
ReachableFrom(S) ==
    LET more == S \cup {graph.edges[i][2] : i \in {j \in DOMAIN graph.edges : graph.edges[j][1] \in S}}
    IN  IF more = S THEN S ELSE ReachableFrom(more)

NoRepeat(seq) == \A i, j \in DOMAIN seq : seq[i] = seq[j] => i = j

\* C12: the line of a seed holds the names of exactly the nodes that directed
\* edges of the final graph lead to from the seed's node, each once and the
\* seed first; the report loop leaves graph, cache and discovered-set alone.
C12_LineIsReachable ==
    /\ [](\A i \in DOMAIN stdout :
             /\ Range(stdout[i]) =
                    {graph.nodes[n] : n \in ReachableFrom({cache_node[pkgnames[i]]})}
             /\ NoRepeat(stdout[i])
             /\ stdout[i][1] = pkgnames[i])
    /\ [][pc = "report" =>
             /\ graph' = graph
             /\ cache_node' = cache_node
             /\ to_build' = to_build
             /\ Len(stdout') = Len(stdout) + 1]_vars

\* a line with a node two edges away, in a graph with a cycle
C12_Witness ==
    /\ pc = "done"
    /\ \E i \in DOMAIN stdout :
           /\ Len(stdout[i]) >= 3
           /\ \E e \in EdgeLabels : e[2] = pkgnames[i] /\ e[1] \in Range(stdout[i])
           /\ \E n \in Range(stdout[i]) : <<pkgnames[i], n>> \notin EdgeLabels /\ n # pkgnames[i]

-----------------------------------------------------------------------------
(* C13 *)

Reverse(seq) == [i \in 1..Len(seq) |-> seq[Len(seq) + 1 - i]]

\* the elements of seq in the order of their first occurrence
RECURSIVE FirstOccurrences(_)
FirstOccurrences(seq) ==
    IF seq = <<>> THEN <<>>
    ELSE LET init == FirstOccurrences(SubSeq(seq, 1, Len(seq) - 1))
             last == seq[Len(seq)]
         IN  IF last \in Range(init) THEN init ELSE Append(init, last)

IndexList(n) == IF n \in DOMAIN reverse_deps_map THEN reverse_deps_map[n] ELSE <<>>

\* the direct reverse-dependents of the i-th seed, the seed itself left out,
\* in the order of their first occurrence in the seed's index list
DirectOf(i) ==
    LET seed == pkgnames[i]
        keep(y) == y # seed
    IN  SelectSeq(FirstOccurrences(IndexList(seed)), keep)

\* what follows the seed on the i-th line, as many names as DirectOf(i) has
AfterSeed(i) == SubSeq(stdout[i], 2, 1 + Len(DirectOf(i)))

Fork == ("a" :> <<"b", "c">>) @@ ("b" :> <<"d">>)

\* C13 as stated: the direct reverse-dependents follow the seed in the order
\* of their first occurrence in the seed's index list; with a->[b, c], b->[d]
\* and seeds [a] the line is a, b, c.
C13_IndexOrder ==
    /\ \A i \in DOMAIN stdout : AfterSeed(i) = DirectOf(i)
    /\ (reverse_deps_map = Fork /\ pkgnames = <<"a">> /\ stdout # <<>>) =>
           stdout[1] = <<"a", "b", "c">>

\* C13 amended: the direct reverse-dependents of a seed, the seed itself left
\* out, follow the seed in the reverse order of their first occurrence in the
\* seed's index list, ahead of every other name; with a->[b, c], b->[d] and
\* seeds [a] the line is a, c, b, d.
C13_NewestFirst ==
    [](/\ \A i \in DOMAIN stdout : AfterSeed(i) = Reverse(DirectOf(i))
       /\ (reverse_deps_map = Fork /\ pkgnames = <<"a">> /\ stdout # <<>>) =>
              stdout[1] = <<"a", "c", "b", "d">>)

C13_Witness ==
    /\ pc = "done"
    /\ reverse_deps_map = Fork
    /\ pkgnames = <<"a">>
    /\ stdout = << <<"a", "c", "b", "d">> >>

-----------------------------------------------------------------------------
(* C14 *)

\* every seed has its line
ReportComplete ==
    /\ Len(stdout) = Len(pkgnames)
    /\ \A i \in DOMAIN stdout : stdout[i] = bfs_line(graph, cache_node[pkgnames[i]])

\* C14: the export is attempted, and the file written or the write failed,
\* only when every seed has its line; a failed export ends the run with an
\* error and leaves the lines printed; the export does not change the graph.
C14_ExportAfterReport ==
    /\ []((pc = "export" \/ file # <<>> \/ IoFailed) => ReportComplete)
    /\ [][pc = "export" =>
             /\ graph' = graph
             /\ stdout' = stdout
             /\ (error' # <<>> => pc' = "failed" /\ file' = <<>>)
             /\ (error' = <<>> => pc' = "done")]_vars

\* the export failed after two lines were printed
C14_Witness ==
    /\ IoFailed
    /\ file = <<>>
    /\ Len(stdout) = 2
    /\ pkgnames[1] # pkgnames[2]
    /\ graph.edges # <<>>

-----------------------------------------------------------------------------
(* C15 *)

\* the position of the first seed that no repository holds
FirstMissing(i) ==
    /\ ~InRepo(pkgnames[i])
    /\ \A j \in 1..(i - 1) : InRepo(pkgnames[j])

Validated == pc \notin {"build_index", "validate"} /\ ~IndexFailed

\* C15: validation looks the seeds up in the order given, stops at the first
\* seed that no repository holds, and returns an error naming that seed.
C15_NamesTheSeed ==
    Validated => \A i \in DOMAIN pkgnames : FirstMissing(i) =>
        /\ pc = "failed"
        /\ looked_up = SubSeq(pkgnames, 1, i)
        /\ error = <<"PkgNotFound", pkgnames[i]>>

-----------------------------------------------------------------------------
(* C16 *)

\* the packages of all sync databases, in scan order
ScanOrder == syncdbs[1].pkgs \o syncdbs[2].pkgs \o syncdbs[3].pkgs \o syncdbs[4].pkgs

\* how often package P names D as a runtime or build-time dependency
Declares(P, D) == Occurrences(P.depends, D) + Occurrences(P.makedepends, D)

Identity(P) == IF P.base = NoBase THEN P.name ELSE P.base

\* n entries for each of the first k packages in scan order that name D n times
RECURSIVE EntriesFor(_, _)
EntriesFor(D, k) ==
    IF k = 0 THEN <<>>
    ELSE EntriesFor(D, k - 1) \o
         [i \in 1..Declares(ScanOrder[k], D) |-> Identity(ScanOrder[k])]

DeclaredNames ==
    UNION {Range(ScanOrder[k].depends) \cup Range(ScanOrder[k].makedepends) :
              k \in DOMAIN ScanOrder}

\* C16: the index has an entry for exactly the names some package declares
\* as a dependency; the entry of D holds, package by package in scan order,
\* one element per occurrence of D in the package's runtime and build-time
\* lists, the element being the package's base name, or its own name when
\* it has none.
C16_OnePerOccurrence ==
    pc = "validate" =>
        /\ DOMAIN reverse_deps_map = DeclaredNames
        /\ \A D \in DeclaredNames : reverse_deps_map[D] = EntriesFor(D, Len(ScanOrder))

\* a listed twice by a package with a base name, then by a package without,
\* and no package naming b
C16_Witness ==
    /\ pc = "validate"
    /\ "b" \notin DOMAIN reverse_deps_map
    /\ "a" \in DOMAIN reverse_deps_map
    /\ \E k \in 1..(Len(reverse_deps_map["a"]) - 2) :
           /\ reverse_deps_map["a"][k] = SplitBase
           /\ reverse_deps_map["a"][k + 1] = SplitBase
           /\ reverse_deps_map["a"][k + 2] = "c"
    /\ \E k \in DOMAIN ScanOrder :
           Occurrences(ScanOrder[k].depends, "a") = 1 /\ Occurrences(ScanOrder[k].makedepends, "a") = 1

-----------------------------------------------------------------------------
(* C17 *)

\* S and every name the index lists, in any number of steps, under a name of S
RECURSIVE IndexClosure(_)
IndexClosure(S) ==
    LET more == S \cup DepsOf(S)
    IN  IF more = S THEN S ELSE IndexClosure(more)

\* the direct and transitive reverse-dependents of n according to the index
TransitiveDeps(n) == IndexClosure(Deps(n))

\* C17: in every state the index lists the target of every edge under the
\* edge's source, and every name on a seed's line other than the seed is a
\* direct or transitive reverse-dependent of that seed.
C17_BackedByIndex ==
    [](/\ \A e \in EdgeLabels : e[2] \in Deps(e[1])
       /\ \A i \in DOMAIN stdout : \A k \in 2..Len(stdout[i]) :
              stdout[i][k] \in TransitiveDeps(pkgnames[i]))

\* a line with a name two steps from the seed, in a corpus with a package
\* that does not depend on the seed
C17_Witness ==
    /\ pc = "done"
    /\ \E i \in DOMAIN stdout :
           /\ \E n \in Range(stdout[i]) \ {pkgnames[i]} : n \notin Deps(pkgnames[i])
           /\ \E m \in DOMAIN reverse_deps_map :
                  InRepo(m) /\ m \notin TransitiveDeps(pkgnames[i]) \cup {pkgnames[i]}

-----------------------------------------------------------------------------
(* C18 *)

\* the names exactly three index steps away from the seeds
ThreeSteps == DepsOf(DepsOf(Direct)) \ Within2

\* C18: in every state the names popped or waiting in the queue are seeds or
\* names the index lists under a seed, and every node is at most two index
\* steps away from some seed.
C18_DepthTwo ==
    [](/\ Range(popped) \cup Range(to_visit) \subseteq Seeds \cup Direct
       /\ \A n \in NodeLabels :
              \/ n \in Seeds
              \/ \E s \in Seeds : n \in Deps(s)
              \/ \E s \in Seeds : \E m \in Deps(s) : n \in Deps(m))

\* a node two steps away whose own dependent, three steps away, has no node
C18_Witness ==
    /\ pc = "report"
    /\ \E n \in NodeLabels \ (Seeds \cup Direct) :
           \E d \in Deps(n) : d \in ThreeSteps /\ d \notin NodeLabels

====
